---- MODULE Spec2Model ----
(***************************************************************************)
(* IsoNegar: the geometry core (src/unnamed/part_000, utils/isometric) and *)
(* the canvas click handler of the editor (src/App.tsx, src/app/App.tsx).  *)
(*                                                                         *)
(* Numbers.  The code computes in IEEE doubles.  The model computes in     *)
(* integers: a world coordinate is a whole number of world units, and a    *)
(* product with a fraction (SCALE = 5/2, cos 30 = 866/1000, sin 30 =       *)
(* 500/1000) is rounded to the nearest unit, symmetrically in the sign, as *)
(* an IEEE product is.  Distances are compared as exact rationals of       *)
(* squared lengths, so no square root is taken.                            *)
(*                                                                         *)
(* A segment is [id, parentId, length, direction]; size, fitting,          *)
(* installationType and label are never read by the code modelled here.    *)
(***************************************************************************)
EXTENDS Integers, Sequences, FiniteSets, TLC

VARIABLES
  pipes,          \* PipeSegment[]: the segment collection (argument of resolveAllCoordinates)
  call,           \* the outcome of resolveAllCoordinates(pipes): phase, returned map, log
  selectedId,     \* App state: the selected id
  isMeasureMode,  \* App state
  measurePoints,  \* App state: Vector2D[]
  isDragging,     \* App state
  click,          \* the last canvas click handled: its inputs and the branch taken
  query,          \* the last call of a geometry function: its arguments and result
  history,        \* App state: HistoryState[], the undo stack
  redoStack,      \* App state: HistoryState[]
  fileRead        \* a FileReader at work: the pipes and selectedId its onload closure holds

vars ==
  <<pipes, call, selectedId, isMeasureMode, measurePoints, isDragging, click, query,
    history, redoStack, fileRead>>

----------------------------------------------------------------------------
(* Bounds of the model *)

\* longest segment list drawn as input
MaxSegs == 3

\* The JS call stack is finite: a recursion deeper than the engine's limit
\* throws RangeError.  A chain of n segments needs n+1 frames of resolve, so
\* the limit is placed above every acyclic list the model draws.
StackLimit == MaxSegs + 2

ROOT == "ROOT"
MissingId == "x"
Directions == {"NORTH", "SOUTH", "EAST", "WEST", "UP", "DOWN"}

----------------------------------------------------------------------------
(* calculateIsoVector *)

\* CONFIG.SCALE = 2.5, Math.cos(CONFIG.ISO_ANGLE), Math.sin(CONFIG.ISO_ANGLE)
\* with ISO_ANGLE = PI/6, as fractions
SCALE == [num |-> 5, den |-> 2]
cos30 == [num |-> 866, den |-> 1000]
sin30 == [num |-> 500, den |-> 1000]

\* n/d rounded to the nearest integer, half away from zero; d > 0.
\* The sign is handled apart from the magnitude, as in an IEEE product.
RoundDiv(n, d) ==
  IF n >= 0 THEN (2 * n + d) \div (2 * d)
            ELSE -((2 * (-n) + d) \div (2 * d))

\* the product a * f of a whole number and a fraction, in world units
FixMul(a, f) == RoundDiv(a * f.num, f.den)

Vec(x, y) == [x |-> x, y |-> y]

\* const len = ..., for a plausible slip: a length of 0 taken as missing,
\* (lengthCm || 100) * CONFIG.SCALE
scaledLengthOrDefault(lengthCm) ==
  FixMul(IF lengthCm = 0 THEN 100 ELSE lengthCm, SCALE)

\* const len = lengthCm * CONFIG.SCALE
scaledLength(lengthCm) == FixMul(lengthCm, SCALE)

\* case 'UP', for a plausible slip: dy = len, the screen's y axis forgotten
caseUPDownwards(len) == Vec(0, len)

\* case 'UP': dy = -len
caseUP(len) == Vec(0, -len)

\* case 'NORTH', for a plausible slip: dy = len * sin30, the case of EAST
caseNORTHAsEast(len) == Vec(FixMul(len, cos30), FixMul(len, sin30))

\* case 'NORTH': dx = len * cos30; dy = -len * sin30
caseNORTH(len) == Vec(FixMul(len, cos30), FixMul(-len, sin30))

\* calculateIsoVector(lengthCm, direction)
calculateIsoVector(lengthCm, direction) ==
  LET len == scaledLength(lengthCm)
  IN CASE direction = "UP"    -> caseUP(len)
       [] direction = "DOWN"  -> Vec(0, len)
       [] direction = "NORTH" -> caseNORTH(len)
       [] direction = "SOUTH" -> Vec(FixMul(-len, cos30), FixMul(len, sin30))
       [] direction = "EAST"  -> Vec(FixMul(len, cos30), FixMul(len, sin30))
       [] direction = "WEST"  -> Vec(FixMul(-len, cos30), FixMul(-len, sin30))
       [] OTHER               -> Vec(0, 0)

----------------------------------------------------------------------------
(* resolveAllCoordinates *)

\* Vector2D | null
Null == <<>>
Some(v) == <<v>>

\* pipes.find(p => p.id === id): the index of the first match, 0 when none
RECURSIVE findFrom(_, _, _)
findFrom(ps, id, k) ==
  IF k > Len(ps) THEN 0
  ELSE IF ps[k].id = id THEN k
  ELSE findFrom(ps, id, k + 1)

find(ps, id) == findFrom(ps, id, 1)

\* Map.prototype.set on the coordinate map, a sequence of entries in
\* insertion order: an existing key keeps its place and takes the new value.
RECURSIVE MapSetFrom(_, _, _)
MapSetFrom(m, e, k) ==
  IF k > Len(m) THEN Append(m, e)
  ELSE IF m[k].id = e.id THEN [m EXCEPT ![k] = e]
  ELSE MapSetFrom(m, e, k + 1)

\* Map.prototype.set, for a plausible slip: the entries are kept newest
\* first (an array filled with unshift)
MapSetNewestFirst(m, e) == <<e>> \o m

MapSet(m, e) == MapSetFrom(m, e, 1)

\* const endPos = {...}, for a plausible slip: the parent's position is not added
endPosOfVectorOnly(parentPos, vector) == Vec(vector.x, vector.y)

\* const endPos = { x: parentPos.x + vector.x, y: parentPos.y + vector.y }
endPosOf(parentPos, vector) == Vec(parentPos.x + vector.x, parentPos.y + vector.y)

\* the entry of coords.set, for a plausible slip: every start at the origin
coordsEntryStartAtOrigin(id, parentPos, endPos) ==
  [id |-> id, startX |-> 0, startY |-> 0, endX |-> endPos.x, endY |-> endPos.y]

\* the entry of coords.set, for a plausible slip: start and end exchanged
coordsEntrySwapped(id, parentPos, endPos) ==
  [id |-> id, startX |-> endPos.x, startY |-> endPos.y,
   endX |-> parentPos.x, endY |-> parentPos.y]

\* the entry of coords.set(id, {startX, startY, endX, endY})
coordsEntry(id, parentPos, endPos) ==
  [id |-> id, startX |-> parentPos.x, startY |-> parentPos.y,
   endX |-> endPos.x, endY |-> endPos.y]

\* nodePositions.set(id, endPos), for a plausible slip: the position is not cached
cacheSetSkipped(nodePositions, id, endPos) == nodePositions

\* nodePositions.set(id, endPos)
cacheSet(nodePositions, id, endPos) == (id :> endPos) @@ nodePositions

\* The two maps of one call, the value resolve returns (ret), whether a
\* RangeError is propagating (thrown), and a log of the ids whose direction
\* vector was computed and position recorded (computed).
NewEnv ==
  [nodePositions |-> (ROOT :> Vec(0, 0)),
   coords        |-> <<>>,
   computed      |-> <<>>,
   thrown        |-> FALSE,
   ret           |-> Null]

\* if (!pipe) return null, for a plausible slip: a segment whose parent is
\* not found is placed at the origin
missingPipeAtOrigin(env) == [env EXCEPT !.ret = Some(Vec(0, 0))]

\* if (!pipe) return null
missingPipe(env) == [env EXCEPT !.ret = Null]

RECURSIVE resolve(_, _, _, _)
RECURSIVE resolveParent(_, _, _, _)

\* const parentPos = resolve(pipe.parentId), for a plausible slip: the
\* parent is expected to stand earlier in the list and is only looked up.
resolveParentCachedOnly(ps, env, parentId, depth) ==
  IF parentId \in DOMAIN env.nodePositions
    THEN [env EXCEPT !.ret = Some(env.nodePositions[parentId])]
    ELSE [env EXCEPT !.ret = Null]

\* const parentPos = resolve(pipe.parentId)
resolveParent(ps, env, parentId, depth) == resolve(ps, env, parentId, depth)

\* resolve(id), called in a frame at depth `depth` of the JS stack
resolve(ps, env, id, depth) ==
  IF depth > StackLimit THEN [env EXCEPT !.thrown = TRUE, !.ret = Null]
  ELSE IF id \in DOMAIN env.nodePositions
    THEN [env EXCEPT !.ret = Some(env.nodePositions[id])]
  ELSE LET i == find(ps, id) IN
    IF i = 0 THEN missingPipe(env)
    ELSE LET pipe == ps[i]
             e1 == resolveParent(ps, env, pipe.parentId, depth + 1)
         IN IF e1.thrown \/ e1.ret = Null THEN e1
            ELSE LET parentPos == e1.ret[1]
                     vector == calculateIsoVector(pipe.length, pipe.direction)
                     endPos == endPosOf(parentPos, vector)
                 IN [nodePositions |-> cacheSet(e1.nodePositions, id, endPos),
                     coords        |-> MapSet(e1.coords, coordsEntry(id, parentPos, endPos)),
                     computed      |-> Append(e1.computed, id),
                     thrown        |-> FALSE,
                     ret           |-> Some(endPos)]

\* pipes.forEach(p => resolve(p.id)); an exception ends the loop
RECURSIVE forEachResolve(_, _, _)
forEachResolve(ps, env, k) ==
  IF k > Len(ps) \/ env.thrown THEN env
  ELSE forEachResolve(ps, resolve(ps, env, ps[k].id, 1), k + 1)

\* resolveAllCoordinates(pipes): "returned" with the map, or "thrown"
resolveAllCoordinates(ps) ==
  LET env == forEachResolve(ps, NewEnv, 1)
  IN [phase    |-> IF env.thrown THEN "thrown" ELSE "returned",
      coords   |-> IF env.thrown THEN <<>> ELSE env.coords,
      computed |-> env.computed]

NotCalled == [phase |-> "idle", coords |-> <<>>, computed |-> <<>>]

\* the caller's list after the call, for a plausible slip: the list is used
\* up as a work list, while (pipes.length) resolve(pipes.pop().id)
pipesAfterResolveConsumed(ps) == <<>>

\* the caller's list after the call: resolveAllCoordinates reads it with
\* pipes.find and pipes.forEach, reads the fields of its segments, and
\* assigns to neither
pipesAfterResolve(ps) == ps

----------------------------------------------------------------------------
(* The inputs drawn for resolveAllCoordinates *)

\* (length in cm, direction) of the segments drawn as input: a zero-length
\* fitting and two runs that are not collinear
Shapes ==
  {[length |-> 0, direction |-> "EAST"],
   [length |-> 4, direction |-> "NORTH"],
   [length |-> 4, direction |-> "UP"]}

IdAt == <<"a", "b", "c">>

Max(S) == CHOOSE m \in S : \A n \in S : n <= m

\* The code compares segment ids only with one another and with 'ROOT', so a
\* list is drawn up to renaming of its ids: the first segment is "a", and a
\* new id is the next unused letter.
CanonIdSeqs(n) ==
  {r \in [1..n -> 1..Len(IdAt)] :
     \A i \in 1..n : r[i] <= 1 + Max({0} \cup {r[j] : j \in 1..(i - 1)})}

\* a parentId: ROOT, an id of the list, or an id the list does not hold
ParentChoices(r, n) == {ROOT, MissingId} \cup {IdAt[r[i]] : i \in 1..n}

MkList(n, r, par, sh) ==
  [i \in 1..n |-> [id |-> IdAt[r[i]], parentId |-> par[i],
                   length |-> sh[i].length, direction |-> sh[i].direction]]

\* ps is any list of at most maxLen segments: well formed, or with
\* missing parents, parent cycles or duplicate ids (the list comes from
\* localStorage or from a project file, and neither is validated)
IsInputList(ps, maxLen) ==
  \E n \in 0..maxLen : \E r \in CanonIdSeqs(n) :
    \E par \in [1..n -> ParentChoices(r, n)] : \E sh \in [1..n -> Shapes] :
      ps = MkList(n, r, par, sh)

IdsOf(ps) == {ps[i].id : i \in 1..Len(ps)}
UniqueIds(ps) == \A i, j \in 1..Len(ps) : ps[i].id = ps[j].id => i = j

----------------------------------------------------------------------------
(* The canvas click hit-test: handleCanvasClick *)

\* A distance is kept as its square, an exact rational n/d with d > 0.
Dist2(n, d) == [n |-> n, d |-> d]
Less(a, b) == a.n * b.d < b.n * a.d

\* Math.hypot(dx, dy)
hypot(dx, dy) == Dist2(dx * dx + dy * dy, 1)

\* the threshold (20/zoom, 25/zoom, 35/zoom or 40/zoom) in world units
thresholdDist(threshold) == Dist2(threshold * threshold, 1)

\* if (l2 === 0), for a plausible slip: the guard is missing
zeroLengthNever(l2) == FALSE

\* if (l2 === 0)
zeroLength(l2) == l2 = 0

\* t = Math.max(0, Math.min(1, t)), for a plausible slip: t is not clamped
clampTNot(dot, l2) == dot

\* t = Math.max(0, Math.min(1, t)) on t = dot / l2, as the numerator over l2
clampT(dot, l2) == IF dot < 0 THEN 0 ELSE IF dot > l2 THEN l2 ELSE dot

\* getDistanceToSegment(px, py, x1, y1, x2, y2).  With t = tn/l2 clamped to
\* [0,1], |p - (a + t(b-a))|^2 = (|p-a|^2 l2 - 2 tn dot + tn^2) / l2; a
\* denominator 0 is a division by zero.
getDistanceToSegment(px, py, x1, y1, x2, y2) ==
  LET l2 == (x2 - x1) * (x2 - x1) + (y2 - y1) * (y2 - y1)
      dot == (px - x1) * (x2 - x1) + (py - y1) * (y2 - y1)
      tn == clampT(dot, l2)
      pa2 == (px - x1) * (px - x1) + (py - y1) * (py - y1)
  IN IF zeroLength(l2) THEN hypot(px - x1, py - y1)
     ELSE Dist2(pa2 * l2 - 2 * tn * dot + tn * tn, l2)

\* if (d < minD) { minD = d; bestId = id; }, for a plausible slip: minD is
\* not lowered, so the last segment within the threshold wins
hitUpdateKeepsMinD(acc, id, d) ==
  IF Less(d, acc.minD) THEN [bestId |-> id, minD |-> acc.minD] ELSE acc

\* if (d < minD) { ... }, for a plausible slip: d <= minD, so a segment at
\* exactly the threshold is taken
hitUpdateAtMost(acc, id, d) ==
  IF ~Less(acc.minD, d) THEN [bestId |-> id, minD |-> d] ELSE acc

\* if (d < minD) { minD = d; bestId = id; }
hitUpdate(acc, id, d) ==
  IF Less(d, acc.minD) THEN [bestId |-> id, minD |-> d] ELSE acc

\* for (const [id, c] of pipeCoords.entries()) { ... }
RECURSIVE hitLoop(_, _, _, _, _)
hitLoop(coords, k, x, y, acc) ==
  IF k > Len(coords) THEN acc
  ELSE LET c == coords[k]
           d == getDistanceToSegment(x, y, c.startX, c.startY, c.endX, c.endY)
       IN hitLoop(coords, k + 1, x, y, hitUpdate(acc, c.id, d))

\* the selection of a click at world point (x, y) outside measure mode
hitTest(coords, x, y, threshold) ==
  IF Less(hypot(x, y), thresholdDist(threshold)) THEN ROOT
  ELSE hitLoop(coords, 1, x, y,
               [bestId |-> ROOT, minD |-> thresholdDist(threshold)]).bestId

\* world points clicked, and thresholds (20/zoom for zoom 10 and zoom 5)
ClickPoints ==
  {Vec(0, 0), Vec(2, -1), Vec(8, -4), Vec(8, -7), Vec(4, 0), Vec(20, 20)}
Thresholds == {2, 4}

NoClick == [branch |-> "none", x |-> 0, y |-> 0, threshold |-> 0]
NoQuery == [fn |-> "none"]
NoRead == [pending |-> FALSE, done |-> FALSE]
ReadDone == [pending |-> FALSE, done |-> TRUE]

\* the updater of setMeasurePoints, for a plausible slip: the list is never
\* started again
measureUpdateAppendOnly(prev, p) == Append(prev, p)

\* prev => prev.length >= 2 ? [p] : [...prev, p]
measureUpdate(prev, p) ==
  IF Len(prev) >= 2 THEN <<p>> ELSE Append(prev, p)

\* handleCanvasClick.  The event's client position, viewOffset and zoom
\* enter only through the world point (x, y) and the threshold, which are
\* the inputs here; pipeCoords is the memoised resolveAllCoordinates(pipes).
handleCanvasClick(x, y, threshold) ==
  /\ call.phase = "returned"
  /\ IF Len(pipes) = 0
       THEN /\ selectedId' = ROOT
            /\ click' = [branch |-> "empty", x |-> x, y |-> y, threshold |-> threshold]
            /\ UNCHANGED measurePoints
     ELSE IF isDragging
       THEN /\ click' = [branch |-> "dragging", x |-> x, y |-> y, threshold |-> threshold]
            /\ UNCHANGED <<selectedId, measurePoints>>
     ELSE IF isMeasureMode
       THEN /\ measurePoints' = measureUpdate(measurePoints, Vec(x, y))
            /\ click' = [branch |-> "measure", x |-> x, y |-> y, threshold |-> threshold]
            /\ UNCHANGED selectedId
     ELSE /\ selectedId' = hitTest(call.coords, x, y, threshold)
          /\ click' = [branch |-> "hit", x |-> x, y |-> y, threshold |-> threshold]
          /\ UNCHANGED measurePoints
  /\ UNCHANGED <<pipes, call, isMeasureMode, isDragging, query,
                 history, redoStack, fileRead>>

CanvasClick ==
  \E p \in ClickPoints : \E threshold \in Thresholds :
    handleCanvasClick(p.x, p.y, threshold)

\* the measure button: setIsMeasureMode(!isMeasureMode); setMeasurePoints([])
ToggleMeasure ==
  /\ call.phase = "returned"
  /\ isMeasureMode' = ~isMeasureMode
  /\ measurePoints' = <<>>
  /\ UNCHANGED <<pipes, call, selectedId, isDragging, click, query,
                 history, redoStack, fileRead>>

\* onMouseDown with the middle button or shift: setIsDragging(true)
MouseDownPan ==
  /\ call.phase = "returned"
  /\ isDragging' = TRUE
  /\ UNCHANGED <<pipes, call, selectedId, isMeasureMode, measurePoints, click, query,
                 history, redoStack, fileRead>>

\* onMouseUp: setIsDragging(false)
MouseUp ==
  /\ call.phase = "returned"
  /\ isDragging' = FALSE
  /\ UNCHANGED <<pipes, call, selectedId, isMeasureMode, measurePoints, click, query,
                 history, redoStack, fileRead>>

----------------------------------------------------------------------------
(* findNearestNode *)

\* if (d < minDict) { ... }, for a plausible slip: minDict is not lowered,
\* so the last candidate within the threshold wins
snapUpdateKeepsMin(acc, point, d) ==
  IF Less(d, acc.minDict) THEN [minDict |-> acc.minDict, nearest |-> Some(point)] ELSE acc

\* if (d < minDict) { ... }, for a plausible slip: d <= minDict, so the last
\* of several candidates at the same distance wins
snapUpdateAtMost(acc, point, d) ==
  IF ~Less(acc.minDict, d) THEN [minDict |-> d, nearest |-> Some(point)] ELSE acc

\* if (d < minDict) { minDict = d; nearest = point; }
snapUpdate(acc, point, d) ==
  IF Less(d, acc.minDict) THEN [minDict |-> d, nearest |-> Some(point)] ELSE acc

\* for (const coords of pipeCoords.values()) { ... }
RECURSIVE snapLoop(_, _, _, _, _)
snapLoop(pipeCoords, k, x, y, acc) ==
  IF k > Len(pipeCoords) THEN acc
  ELSE LET c == pipeCoords[k]
           d == hypot(x - c.endX, y - c.endY)
       IN snapLoop(pipeCoords, k + 1, x, y, snapUpdate(acc, Vec(c.endX, c.endY), d))

\* findNearestNode(x, y, pipeCoords, threshold): Vector2D | null
findNearestNode(x, y, pipeCoords, threshold) ==
  LET start == [minDict |-> thresholdDist(threshold), nearest |-> Null]
      afterRoot == snapUpdate(start, Vec(0, 0), hypot(x, y))
  IN snapLoop(pipeCoords, 1, x, y, afterRoot).nearest

\* query points and thresholds of findNearestNode
SnapPoints ==
  {Vec(0, 0), Vec(2, -7), Vec(7, -12), Vec(9, -1), Vec(4, 0), Vec(8, -4), Vec(20, 20)}
SnapThresholds == {4, 8}

\* a call findNearestNode(x, y, pipeCoords, threshold) on the current map,
\* the one query of a behaviour
FindNearestNode ==
  /\ call.phase = "returned"
  /\ query = NoQuery
  /\ \E p \in SnapPoints : \E threshold \in SnapThresholds :
       query' = [fn |-> "findNearestNode", x |-> p.x, y |-> p.y,
                 threshold |-> threshold,
                 result |-> findNearestNode(p.x, p.y, call.coords, threshold)]
  /\ UNCHANGED <<pipes, call, selectedId, isMeasureMode, measurePoints, isDragging, click,
                 history, redoStack, fileRead>>

----------------------------------------------------------------------------
(* The editor: commitToHistory, undo, redo, add, update, delete, file load.
   The handlers are functions of the editor state s = [pipes, selectedId,
   history, redoStack] that the render they belong to has in its closure. *)

\* prev.slice(-49): the number of snapshots a commit keeps
HistoryKeep == 49

\* s.slice(-n), n > 0
SliceLast(s, n) == IF Len(s) <= n THEN s ELSE SubSeq(s, Len(s) - n + 1, Len(s))

Last(s) == s[Len(s)]
Front(s) == SubSeq(s, 1, Len(s) - 1)

\* JSON.parse(JSON.stringify(pipes)): a new array of new objects; strings
\* and finite numbers come back as they went in
jsonClone(ps) ==
  [k \in 1..Len(ps) |->
     [id |-> ps[k].id, parentId |-> ps[k].parentId,
      length |-> ps[k].length, direction |-> ps[k].direction]]

\* { pipes: ..., selectedId }, for a plausible slip: the selection is not
\* in the snapshot and comes back as 'ROOT'
snapshotOfPipesOnly(ps, sel) == [pipes |-> jsonClone(ps), selectedId |-> ROOT]

\* { pipes: JSON.parse(JSON.stringify(pipes)), selectedId }
snapshotOf(ps, sel) == [pipes |-> jsonClone(ps), selectedId |-> sel]

\* prev.slice(-49), for a plausible slip: nothing is dropped
keptHistoryAll(prev) == prev

\* prev.slice(-49)
keptHistory(prev) == SliceLast(prev, HistoryKeep)

\* setRedoStack([]), for a plausible slip: the redo stack is left alone
redoAfterCommitKept(prev) == prev

\* setRedoStack([])
redoAfterCommit(prev) == <<>>

\* commitToHistory() of a render whose closure holds (ps, sel), applied to
\* the editor state s
commitToHistory(s, ps, sel) ==
  [s EXCEPT !.history = Append(keptHistory(@), snapshotOf(ps, sel)),
            !.redoStack = redoAfterCommit(@)]

\* setSelectedId(previous.selectedId), for a plausible slip: the selection
\* is not restored
restoredSelectionKept(snapshot, sel) == sel

\* setSelectedId(previous.selectedId), setSelectedId(next.selectedId)
restoredSelection(snapshot, sel) == snapshot.selectedId

\* handleUndo
handleUndo(s) ==
  IF Len(s.history) = 0 THEN s
  ELSE LET previous == Last(s.history)
       IN [pipes      |-> previous.pipes,
           selectedId |-> restoredSelection(previous, s.selectedId),
           history    |-> Front(s.history),
           redoStack  |-> Append(s.redoStack, snapshotOf(s.pipes, s.selectedId))]

\* setHistory(prev => [...prev, {...}]) of redo, for a plausible slip: the
\* state left behind is not put back on the history
historyAfterRedoDropped(prev, snapshot) == prev

\* setHistory(prev => [...prev, { pipes: ..., selectedId }]) of redo
historyAfterRedo(prev, snapshot) == Append(prev, snapshot)

\* handleRedo
handleRedo(s) ==
  IF Len(s.redoStack) = 0 THEN s
  ELSE LET next == Last(s.redoStack)
       IN [pipes      |-> next.pipes,
           selectedId |-> restoredSelection(next, s.selectedId),
           history    |-> historyAfterRedo(s.history, snapshotOf(s.pipes, s.selectedId)),
           redoStack  |-> Front(s.redoStack)]

\* { id, parentId: selectedId, ...form }, for a plausible slip: parentId: id
newSegmentOwnParent(id, sel, form) ==
  [id |-> id, parentId |-> id, length |-> form.length, direction |-> form.direction]

\* { id, parentId: selectedId, ...form }
newSegment(id, sel, form) ==
  [id |-> id, parentId |-> sel, length |-> form.length, direction |-> form.direction]

\* handleAddPipe, with the id that Math.random() gave
handleAddPipe(s, id, form) ==
  LET c == commitToHistory(s, s.pipes, s.selectedId)
  IN [c EXCEPT !.pipes = Append(@, newSegment(id, s.selectedId, form)),
               !.selectedId = id]

\* prev.filter(p => p.id !== selectedId)
RECURSIVE filterOut(_, _)
filterOut(ps, id) ==
  IF Len(ps) = 0 THEN <<>>
  ELSE IF ps[1].id = id THEN filterOut(Tail(ps), id)
  ELSE <<ps[1]>> \o filterOut(Tail(ps), id)

\* setSelectedId('ROOT') of delete, for a plausible slip: it is missing
selectionAfterDeleteKept(sel) == sel

\* setSelectedId('ROOT') of delete
selectionAfterDelete(sel) == ROOT

\* handleDeletePipe
handleDeletePipe(s) ==
  IF s.selectedId = ROOT THEN s
  ELSE LET c == commitToHistory(s, s.pipes, s.selectedId)
       IN [c EXCEPT !.pipes = filterOut(@, s.selectedId),
                    !.selectedId = selectionAfterDelete(@)]

\* {...p, ...form}: the form holds length, size, direction, fitting,
\* installationType and label, never id or parentId
updatedSegment(p, form) ==
  [p EXCEPT !.length = form.length, !.direction = form.direction]

\* handleUpdatePipe
handleUpdatePipe(s, form) ==
  IF s.selectedId = ROOT THEN s
  ELSE LET c == commitToHistory(s, s.pipes, s.selectedId)
       IN [c EXCEPT !.pipes =
             [k \in 1..Len(@) |->
                IF @[k].id = s.selectedId THEN updatedSegment(@[k], form) ELSE @[k]]]

\* handleNewProject (the confirm dialog answered with yes)
handleNewProject(s) ==
  IF Len(s.pipes) = 0 THEN s
  ELSE LET c == commitToHistory(s, s.pipes, s.selectedId)
       IN [c EXCEPT !.pipes = <<>>, !.selectedId = ROOT]

\* reader.onload of a file input's onChange.  The closure is the one of the
\* render in which the file was chosen: its commitToHistory holds that
\* render's pipes and selectedId, while the setters act on the state of now.
\* data: the text is not JSON ("invalid"), an object with a pipes field or
\* an array ("pipes"), or any other JSON value ("other").
readerOnload(s, closure, data) ==
  CASE data.kind = "invalid" -> s
    [] data.kind = "pipes" ->
         [commitToHistory(s, closure.pipes, closure.selectedId)
            EXCEPT !.pipes = data.pipes, !.selectedId = ROOT]
    [] data.kind = "other" -> [s EXCEPT !.selectedId = ROOT]

\* the editor state of the current render
Ed ==
  [pipes |-> pipes, selectedId |-> selectedId, history |-> history,
   redoStack |-> redoStack]

\* the state setters of a handler, and the render that follows:
\* pipeCoords = useMemo(() => resolveAllCoordinates(pipes), [pipes]).
\* The record of the last click was of the map before; it is cleared.
Render(t) ==
  /\ pipes' = t.pipes
  /\ selectedId' = t.selectedId
  /\ history' = t.history
  /\ redoStack' = t.redoStack
  /\ call' = resolveAllCoordinates(t.pipes)
  /\ click' = NoClick

\* A render that threw (resolveAllCoordinates on a cyclic collection)
\* leaves no App to act on.
Alive == call.phase = "returned"

\* ids in the editor's hands: in the collection, in a snapshot, in a closure
SnapshotIds(h) == UNION {IdsOf(h[k].pipes) : k \in 1..Len(h)}
KnownIds ==
  IdsOf(pipes) \cup SnapshotIds(history) \cup SnapshotIds(redoStack)
    \cup (IF fileRead.pending THEN IdsOf(fileRead.pipes) ELSE {})

\* Math.random().toString(36).substr(2, 9): nine random characters, taken
\* as an id no segment has had; ids are named in the order they are made
FreshIds == {IdAt[k] : k \in 1..Len(IdAt)} \ KnownIds
FreshId == IdAt[CHOOSE k \in 1..Len(IdAt) :
                  /\ IdAt[k] \in FreshIds
                  /\ \A j \in 1..(k - 1) : IdAt[j] \notin FreshIds]

OtherState == <<isMeasureMode, measurePoints, isDragging, query>>

\* the add button, the form holding one of forms
HandleAddPipe(forms) ==
  /\ Alive
  /\ FreshIds # {}
  /\ \E form \in forms : Render(handleAddPipe(Ed, FreshId, form))
  /\ UNCHANGED <<OtherState, fileRead>>

\* the update button, the form holding one of forms
HandleUpdatePipe(forms) ==
  /\ Alive
  /\ selectedId # ROOT
  /\ \E form \in forms : Render(handleUpdatePipe(Ed, form))
  /\ UNCHANGED <<OtherState, fileRead>>

\* the delete button
HandleDeletePipe ==
  /\ Alive
  /\ selectedId # ROOT
  /\ Render(handleDeletePipe(Ed))
  /\ UNCHANGED <<OtherState, fileRead>>

\* the undo button (disabled while history is empty)
HandleUndo ==
  /\ Alive
  /\ Len(history) > 0
  /\ Render(handleUndo(Ed))
  /\ UNCHANGED <<OtherState, fileRead>>

\* the redo button (disabled while redoStack is empty)
HandleRedo ==
  /\ Alive
  /\ Len(redoStack) > 0
  /\ Render(handleRedo(Ed))
  /\ UNCHANGED <<OtherState, fileRead>>

\* the new-project button
HandleNewProject ==
  /\ Alive
  /\ Len(pipes) > 0
  /\ Render(handleNewProject(Ed))
  /\ UNCHANGED <<OtherState, fileRead>>

\* onChange of the file input: reader.readAsText(file) starts, reader.onload
\* keeps the closure of this render.  A behaviour loads one file.
ChooseFile ==
  /\ Alive
  /\ fileRead = NoRead
  /\ fileRead' = [pending |-> TRUE, done |-> FALSE,
                  pipes |-> pipes, selectedId |-> selectedId]
  /\ UNCHANGED <<pipes, call, selectedId, history, redoStack, click, OtherState>>

\* what a project file may hold
FileLists ==
  {<<[id |-> "a", parentId |-> ROOT, length |-> 4, direction |-> "NORTH"]>>,
   <<[id |-> "a", parentId |-> "a", length |-> 4, direction |-> "UP"]>>}
FileContents ==
  {[kind |-> "invalid"], [kind |-> "other"]}
    \cup {[kind |-> "pipes", pipes |-> ps] : ps \in FileLists}

\* reader.onload fires on a file that holds data
FileLoadedWith(data) ==
  /\ Alive
  /\ fileRead.pending
  /\ Render(readerOnload(Ed, fileRead, data))
  /\ fileRead' = ReadDone
  /\ UNCHANGED OtherState

FileLoaded == \E data \in FileContents : FileLoadedWith(data)

----------------------------------------------------------------------------
(* Specifications *)

\* the App's state after construction, the segment collection apart
AppInit ==
  /\ selectedId = ROOT
  /\ isMeasureMode = FALSE
  /\ measurePoints = <<>>
  /\ isDragging = FALSE
  /\ click = NoClick
  /\ query = NoQuery
  /\ history = <<>>
  /\ redoStack = <<>>
  /\ fileRead = NoRead

\* One call of resolveAllCoordinates on an arbitrary list.
Init ==
  /\ IsInputList(pipes, MaxSegs)
  /\ call = NotCalled
  /\ AppInit

ResolveAll ==
  /\ call.phase = "idle"
  /\ call' = resolveAllCoordinates(pipes)
  /\ pipes' = pipesAfterResolve(pipes)
  /\ UNCHANGED <<selectedId, isMeasureMode, measurePoints, isDragging, click, query,
                 history, redoStack, fileRead>>

Next == ResolveAll

Spec == Init /\ [][Next]_vars

\* longest segment list on the canvas
MaxCanvasSegs == 2

\* The canvas of a rendered App: pipeCoords = resolveAllCoordinates(pipes)
\* was computed by the first render (a render that throws shows no canvas).
\* The collection is one the editor builds: unique ids, every segment
\* resolved.  The hit-test reads the coordinate map alone, and a list with
\* unresolved segments has the map of the list without them.
InitCanvas ==
  /\ IsInputList(pipes, MaxCanvasSegs)
  /\ UniqueIds(pipes)
  /\ call = resolveAllCoordinates(pipes)
  /\ call.phase = "returned"
  /\ Len(call.coords) = Len(pipes)
  /\ AppInit

NextCanvas ==
  \/ CanvasClick
  \/ ToggleMeasure
  \/ MouseDownPan
  \/ MouseUp

SpecCanvas == InitCanvas /\ [][NextCanvas]_vars

\* longest length, in cm, given to calculateIsoVector
MaxLength == 10

Lengths == (-MaxLength)..MaxLength

\* a call calculateIsoVector(lengthCm, direction), the one call of a
\* behaviour
CalculateIsoVector ==
  /\ query = NoQuery
  /\ \E lengthCm \in Lengths : \E direction \in Directions :
       query' = [fn |-> "calculateIsoVector", lengthCm |-> lengthCm,
                 direction |-> direction,
                 result |-> calculateIsoVector(lengthCm, direction)]
  /\ UNCHANGED <<pipes, call, selectedId, isMeasureMode, measurePoints, isDragging, click,
                 history, redoStack, fileRead>>

\* Calls of calculateIsoVector, no collection involved.
InitVector ==
  /\ pipes = <<>>
  /\ call = NotCalled
  /\ AppInit

NextVector == CalculateIsoVector

SpecVector == InitVector /\ [][NextVector]_vars

\* largest coordinate given to getDistanceToSegment
MaxCoord == 2

Coords == (-MaxCoord)..MaxCoord

\* a call getDistanceToSegment(px, py, x1, y1, x2, y2), the one call of a
\* behaviour
GetDistanceToSegment ==
  /\ query = NoQuery
  /\ \E px, py, x1, y1, x2, y2 \in Coords :
       query' = [fn |-> "getDistanceToSegment", px |-> px, py |-> py,
                 x1 |-> x1, y1 |-> y1, x2 |-> x2, y2 |-> y2,
                 result |-> getDistanceToSegment(px, py, x1, y1, x2, y2)]
  /\ UNCHANGED <<pipes, call, selectedId, isMeasureMode, measurePoints, isDragging, click,
                 history, redoStack, fileRead>>

\* Calls of getDistanceToSegment, no collection involved.
InitDistance ==
  /\ pipes = <<>>
  /\ call = NotCalled
  /\ AppInit

NextDistance == GetDistanceToSegment

SpecDistance == InitDistance /\ [][NextDistance]_vars

\* a call getDistanceToSegment(worldX, worldY, c.startX, c.startY, c.endX,
\* c.endY) on an entry c of the current map, the one query of a behaviour
SegmentDistance ==
  /\ call.phase = "returned"
  /\ query = NoQuery
  /\ \E p \in ClickPoints : \E k \in 1..Len(call.coords) :
       LET coords == call.coords[k]
       IN query' = [fn |-> "getDistanceToSegment", px |-> p.x, py |-> p.y,
                    x1 |-> coords.startX, y1 |-> coords.startY,
                    x2 |-> coords.endX, y2 |-> coords.endY,
                    result |-> getDistanceToSegment(p.x, p.y, coords.startX,
                                 coords.startY, coords.endX, coords.endY)]
  /\ UNCHANGED <<pipes, call, selectedId, isMeasureMode, measurePoints, isDragging, click,
                 history, redoStack, fileRead>>

\* A resolve call on a collection, then one query on the map it returned.
InitPure ==
  /\ IsInputList(pipes, MaxCanvasSegs)
  /\ call = NotCalled
  /\ AppInit

NextPure ==
  \/ ResolveAll
  \/ FindNearestNode
  \/ SegmentDistance

SpecPure == InitPure /\ [][NextPure]_vars

\* most snapshots on the history stack of the editor specifications
MaxHistory == 3

\* the forms of the add and update buttons: two runs that are not collinear
Forms == {sh \in Shapes : sh.length > 0}

\* the canvas clicks of the App specification: at the origin and near the
\* end of a NORTH run from the origin, with the threshold 20/zoom at zoom 5
AppClickPoints == {Vec(0, 0), Vec(8, -4)}
AppThreshold == Max(Thresholds)

\* An empty project.
InitEditor ==
  /\ pipes = <<>>
  /\ call = resolveAllCoordinates(pipes)
  /\ AppInit

\* The editor's five operations on an empty project, the history capped for
\* the model.
NextEditor ==
  \/ Len(history) < MaxHistory /\ HandleAddPipe(Forms)
  \/ Len(history) < MaxHistory /\ HandleUpdatePipe(Forms)
  \/ Len(history) < MaxHistory /\ HandleDeletePipe
  \/ HandleUndo
  \/ HandleRedo

SpecEditor == InitEditor /\ [][NextEditor]_vars

\* The App at work on an empty project: the editor's operations, the canvas
\* click and the loading of a project file.  The form holds a NORTH run.
AppForms == {sh \in Forms : sh.direction = "NORTH"}

NextApp ==
  \/ Len(history) < MaxHistory /\ HandleAddPipe(AppForms)
  \/ Len(history) < MaxHistory /\ HandleUpdatePipe(AppForms)
  \/ Len(history) < MaxHistory /\ HandleDeletePipe
  \/ HandleUndo
  \/ HandleRedo
  \/ \E p \in AppClickPoints : handleCanvasClick(p.x, p.y, AppThreshold)
  \/ ChooseFile
  \/ Len(history) < MaxHistory /\ FileLoaded

SpecApp == InitEditor /\ [][NextApp]_vars

\* Every handler that commits to history, with undo and redo: add, update,
\* delete, new project and the loading of a project file.
NextCommit ==
  \/ Len(history) < MaxHistory /\ HandleAddPipe(Forms)
  \/ Len(history) < MaxHistory /\ HandleUpdatePipe(Forms)
  \/ Len(history) < MaxHistory /\ HandleDeletePipe
  \/ Len(history) < MaxHistory /\ HandleNewProject
  \/ HandleUndo
  \/ HandleRedo
  \/ ChooseFile
  \/ Len(history) < MaxHistory /\ FileLoaded

SpecCommit == InitEditor /\ [][NextCommit]_vars

\* most segments of the collection in the history specification
MaxHistorySegs == 1

\* Commits, undos and redos on a history stack as long as the code lets it
\* grow: the add button on a collection below MaxHistorySegs, the update
\* button with the form of the selected run, undo and redo.
NextHistory ==
  \/ Len(pipes) < MaxHistorySegs /\ HandleAddPipe(AppForms)
  \/ HandleUpdatePipe(AppForms)
  \/ HandleUndo
  \/ HandleRedo

SpecHistory == InitEditor /\ [][NextHistory]_vars

\* Calls of findNearestNode on the coordinate map of a resolved collection.
NextSnap == FindNearestNode

SpecSnap == InitCanvas /\ [][NextSnap]_vars

----------------------------------------------------------------------------
(* What the claims speak of, defined on the segment list alone *)

Called == call.phase # "idle"
Returned == call.phase = "returned"

\* the segment an id names: the first of the list with that id
SegOf(ps, id) ==
  ps[CHOOSE i \in 1..Len(ps) :
       ps[i].id = id /\ \A j \in 1..(i - 1) : ps[j].id # id]

\* one step, and k steps, along parentId; ROOT and a missing id stay put
Up(ps, id) == IF id \in IdsOf(ps) THEN SegOf(ps, id).parentId ELSE id

RECURSIVE UpK(_, _, _)
UpK(ps, id, k) == IF k = 0 THEN id ELSE UpK(ps, Up(ps, id), k - 1)

ReachesRoot(ps, id) == UpK(ps, id, Len(ps)) = ROOT
OnCycle(ps, id) == id \in IdsOf(ps) /\ \E k \in 1..Len(ps) : UpK(ps, id, k) = id
CycleIds(ps) == {id \in IdsOf(ps) : OnCycle(ps, id)}

\* a segment whose parentId names no segment, or that descends from one
EndsAtMissing(ps, id) == UpK(ps, id, Len(ps)) \notin (IdsOf(ps) \cup {ROOT})
IsOrphan(ps, seg) == seg.parentId \notin (IdsOf(ps) \cup {ROOT})

\* the list without its orphans and their descendants
Pruned(ps) ==
  LET Keep(seg) == ~EndsAtMissing(ps, seg.id)
  IN SelectSeq(ps, Keep)

EntryIds(coords) == {coords[k].id : k \in 1..Len(coords)}
EntryOf(coords, id) == coords[CHOOSE k \in 1..Len(coords) : coords[k].id = id]

\* a coordinate map as a mapping: its entries, whatever their order
AsMapping(coords) == {coords[k] : k \in 1..Len(coords)}

NoDuplicates(seq) == \A i, j \in 1..Len(seq) : seq[i] = seq[j] => i = j

Permuted(ps, f) == [i \in 1..Len(ps) |-> ps[f[i]]]

----------------------------------------------------------------------------
(* Claims C1 .. C9: resolveAllCoordinates, under Spec *)

\* C1: on a list with a parent cycle (a segment that is its own parent
\* included) the call returns, and the segments on the cycle have no entry
\* in the returned map.
C1_CycleSafe ==
  (Called /\ CycleIds(pipes) # {}) =>
    (Returned /\ CycleIds(pipes) \cap EntryIds(call.coords) = {})

\* C2: for a list with unique ids the call returns a map that holds an entry
\* for a segment exactly when its parent chain reaches ROOT; segments on a
\* cycle or with an unresolvable ancestor have none.
C2_EntryIffReachesRoot ==
  (Called /\ UniqueIds(pipes)) =>
    (Returned /\ EntryIds(call.coords) = {id \in IdsOf(pipes) : ReachesRoot(pipes, id)})

\* The part of C2 the code does keep: whenever the call returns, the map
\* holds exactly the segments whose chain reaches ROOT.
ReturnedMapIsRootedPart ==
  Returned => EntryIds(call.coords) = {id \in IdsOf(pipes) : ReachesRoot(pipes, id)}

\* The call throws exactly when some segment's chain runs into a cycle.
ThrownIffChainCycles ==
  Called =>
    ((call.phase = "thrown") <=>
       \E id \in IdsOf(pipes) : OnCycle(pipes, UpK(pipes, id, Len(pipes))))

\* C3: every returned entry starts exactly at the end point the same map
\* records for its parent, or at (0,0) when its parentId is ROOT.
C3_StartIsParentEnd ==
  Returned =>
    \A k \in 1..Len(call.coords) :
      LET e == call.coords[k]
          parentId == SegOf(pipes, e.id).parentId
      IN IF parentId = ROOT
           THEN e.startX = 0 /\ e.startY = 0
           ELSE /\ parentId \in EntryIds(call.coords)
                /\ e.startX = EntryOf(call.coords, parentId).endX
                /\ e.startY = EntryOf(call.coords, parentId).endY

\* C3 witness: a returned entry under a parent segment whose end is not the origin
C3_Witness ==
  /\ Returned
  /\ \E k \in 1..Len(call.coords) :
       LET e == call.coords[k]
           parentId == SegOf(pipes, e.id).parentId
       IN /\ parentId # ROOT
          /\ <<e.startX, e.startY>> # <<0, 0>>
          /\ e.startX = EntryOf(call.coords, parentId).endX

\* C4: in a list with unique ids, an orphan (parentId names no segment and
\* is not ROOT) and its descendants get no entry, and the outcome is the one
\* of the list without them: the same entries for every other segment.
C4_OrphanExcluded ==
  (Called /\ UniqueIds(pipes)) =>
    LET pruned == resolveAllCoordinates(Pruned(pipes))
    IN /\ pruned.phase = call.phase
       /\ AsMapping(pruned.coords) = AsMapping(call.coords)
       /\ \A id \in IdsOf(pipes) :
            EndsAtMissing(pipes, id) => id \notin EntryIds(call.coords)

\* C4 witness: the call returned on a list with an orphan, a descendant of
\* the orphan and an unrelated segment, and the map holds the unrelated one
C4_Witness ==
  /\ Returned /\ UniqueIds(pipes)
  /\ \E i, j \in 1..Len(pipes) :
       /\ IsOrphan(pipes, pipes[i])
       /\ pipes[j].parentId = pipes[i].id
       /\ pipes[j].id \notin EntryIds(call.coords)
       /\ pipes[i].id \notin EntryIds(call.coords)
  /\ call.coords # <<>>

\* C5: for a list with unique ids every permutation of the list has the same
\* outcome: the same mapping from segment id to position.
C5_OrderIndependent ==
  (Called /\ UniqueIds(pipes)) =>
    \A f \in Permutations(1..Len(pipes)) :
      LET other == resolveAllCoordinates(Permuted(pipes, f))
      IN /\ other.phase = call.phase
         /\ AsMapping(other.coords) = AsMapping(call.coords)

\* C5 witness: a returned map of a list in which a child stands before its
\* parent, and a permutation that inserts the entries in another order
C5_Witness ==
  /\ Returned /\ UniqueIds(pipes)
  /\ \E i, j \in 1..Len(pipes) : i < j /\ pipes[i].parentId = pipes[j].id
  /\ Len(call.coords) >= 2
  /\ \E f \in Permutations(1..Len(pipes)) :
       resolveAllCoordinates(Permuted(pipes, f)).coords # call.coords

\* C6: within one call the direction vector of a segment id is computed and
\* its position recorded at most once.
C6_ResolvedAtMostOnce == Called => NoDuplicates(call.computed)

\* C6 witness: a parent that stands after two of its children in the list
\* was resolved, with both children
C6_Witness ==
  /\ Returned
  /\ \E i, j, k \in 1..Len(pipes) :
       /\ i < j /\ j < k
       /\ pipes[i].parentId = pipes[k].id
       /\ pipes[j].parentId = pipes[k].id
       /\ {pipes[i].id, pipes[j].id, pipes[k].id} \subseteq EntryIds(call.coords)
       /\ Cardinality({pipes[i].id, pipes[j].id, pipes[k].id}) = 3

\* C8: on any input, duplicate ids included, the call returns (it does not
\* throw), and the returned map holds at most one entry per id.
C8_NeverThrows ==
  Called =>
    (Returned /\ NoDuplicates([k \in 1..Len(call.coords) |-> call.coords[k].id]))

\* The part of C8 the code does keep: a returned map holds one entry per id.
ReturnedMapHasUniqueKeys ==
  Returned => NoDuplicates([k \in 1..Len(call.coords) |-> call.coords[k].id])

\* C9: every returned entry ends at its start plus the direction vector of
\* its segment; a segment of length 0 ends where it starts.
C9_EndIsStartPlusVector ==
  Returned =>
    \A k \in 1..Len(call.coords) :
      LET e == call.coords[k]
          seg == SegOf(pipes, e.id)
          v == calculateIsoVector(seg.length, seg.direction)
      IN /\ e.endX = e.startX + v.x
         /\ e.endY = e.startY + v.y
         /\ seg.length = 0 => (e.endX = e.startX /\ e.endY = e.startY)

\* C9 witness: a map with a zero-length entry and an entry of non-zero
\* vector, both starting away from the origin
C9_Witness ==
  /\ Returned
  /\ \E k, m \in 1..Len(call.coords) :
       LET e == call.coords[k]
           g == call.coords[m]
       IN /\ SegOf(pipes, e.id).length = 0
          /\ <<e.startX, e.startY>> # <<0, 0>>
          /\ <<e.endX, e.endY>> = <<e.startX, e.startY>>
          /\ SegOf(pipes, g.id).length > 0
          /\ <<g.startX, g.startY>> # <<0, 0>>
          /\ <<g.endX, g.endY>> # <<g.startX, g.startY>>

----------------------------------------------------------------------------
(* Claim C10: the click hit-test, under SpecCanvas *)

\* the last click took the hit-test branch of handleCanvasClick
HitTested == click.branch = "hit"

ClickThreshold == thresholdDist(click.threshold)
RootDist == hypot(click.x, click.y)
SegDist(e) ==
  getDistanceToSegment(click.x, click.y, e.startX, e.startY, e.endX, e.endY)

\* the distance of a candidate of the click: ROOT or the id of an entry
CandidateDist(id) ==
  IF id = ROOT THEN RootDist ELSE SegDist(EntryOf(call.coords, id))

Candidates == {ROOT} \cup EntryIds(call.coords)

\* C10 as claimed: when the least distance among Root and all resolved
\* segments is strictly less than the threshold, the selected element is one
\* at that least distance (so a segment strictly closer than Root wins).
C10_GlobalMinimumSelected ==
  (HitTested /\ \E id \in Candidates : Less(CandidateDist(id), ClickThreshold)) =>
    /\ selectedId \in Candidates
    /\ \A id \in Candidates : ~Less(CandidateDist(id), CandidateDist(selectedId))

\* C10 amended: Root is selected whenever the click is strictly within the
\* threshold of the origin, a closer segment notwithstanding; otherwise the
\* selected element is the resolved segment at least point-to-segment
\* distance, provided that distance is strictly less than the threshold.
C10_RootFirstThenNearestSegment ==
  HitTested =>
    /\ Less(RootDist, ClickThreshold) => selectedId = ROOT
    /\ (/\ ~Less(RootDist, ClickThreshold)
        /\ \E k \in 1..Len(call.coords) : Less(SegDist(call.coords[k]), ClickThreshold))
       => /\ selectedId \in EntryIds(call.coords)
          /\ Less(CandidateDist(selectedId), ClickThreshold)
          /\ \A k \in 1..Len(call.coords) :
               ~Less(SegDist(call.coords[k]), CandidateDist(selectedId))

\* C10 witness: a click away from the origin with two segments within the
\* threshold at different distances selected the nearer one
C10_Witness ==
  /\ HitTested
  /\ ~Less(RootDist, ClickThreshold)
  /\ \E k, m \in 1..Len(call.coords) :
       /\ Less(SegDist(call.coords[k]), SegDist(call.coords[m]))
       /\ Less(SegDist(call.coords[m]), ClickThreshold)
       /\ selectedId = call.coords[k].id
       /\ k < m

\* A click within the threshold of the origin selected Root although a
\* segment is strictly closer to the click than Root is.
RootSelectedOverCloserSegment ==
  /\ HitTested
  /\ selectedId = ROOT
  /\ \E k \in 1..Len(call.coords) : Less(SegDist(call.coords[k]), RootDist)

----------------------------------------------------------------------------
(* Claim C11: the default of the click hit-test, under SpecCanvas *)

NothingWithinThreshold ==
  \A id \in Candidates : ~Less(CandidateDist(id), ClickThreshold)

\* C11: when neither Root nor any resolved segment is strictly within the
\* threshold of the click, the hit-test selects ROOT; a hit-test always
\* leaves ROOT or the id of a resolved segment selected.
C11_DefaultIsRoot ==
  HitTested =>
    /\ NothingWithinThreshold => selectedId = ROOT
    /\ selectedId \in Candidates

\* C11 witness: a click with nothing strictly within the threshold, one
\* segment being at exactly the threshold, selected ROOT
C11_Witness ==
  /\ HitTested
  /\ NothingWithinThreshold
  /\ \E k \in 1..Len(call.coords) :
       /\ ~Less(ClickThreshold, SegDist(call.coords[k]))
       /\ ~Less(SegDist(call.coords[k]), ClickThreshold)
  /\ selectedId = ROOT

----------------------------------------------------------------------------
(* Claims C12, C13: findNearestNode, under SpecSnap *)

SnapQueried == query.fn = "findNearestNode"

\* the candidates in the order the function examines them: the origin, then
\* the end point of every entry in the map's insertion order
SnapCandidates ==
  <<Vec(0, 0)>> \o [k \in 1..Len(call.coords) |->
                      Vec(call.coords[k].endX, call.coords[k].endY)]

SnapDist(c) == hypot(query.x - c.x, query.y - c.y)
SnapThreshold == thresholdDist(query.threshold)

\* the candidate at index i is strictly within the threshold and no
\* candidate is nearer
IsNearest(i) ==
  /\ Less(SnapDist(SnapCandidates[i]), SnapThreshold)
  /\ \A j \in 1..Len(SnapCandidates) :
       ~Less(SnapDist(SnapCandidates[j]), SnapDist(SnapCandidates[i]))

\* C12: the result is a candidate (the origin or an entry's end point) at
\* least distance among the candidates and strictly within the threshold;
\* it is null exactly when no candidate is strictly within the threshold.
C12_NearestWithinThreshold ==
  SnapQueried =>
    IF \E i \in 1..Len(SnapCandidates) : Less(SnapDist(SnapCandidates[i]), SnapThreshold)
      THEN /\ query.result # Null
           /\ \E i \in 1..Len(SnapCandidates) :
                IsNearest(i) /\ query.result = Some(SnapCandidates[i])
      ELSE query.result = Null

\* C12 witness: an end point strictly nearer than the origin was returned
C12_Witness ==
  /\ SnapQueried
  /\ query.result # Null
  /\ query.result # Some(Vec(0, 0))
  /\ Less(SnapDist(query.result[1]), SnapDist(Vec(0, 0)))
  /\ Less(SnapDist(Vec(0, 0)), SnapThreshold)

\* a candidate at exactly the threshold, nothing nearer: the result is null
SnapNullAtThreshold ==
  /\ SnapQueried
  /\ query.result = Null
  /\ \E i \in 1..Len(SnapCandidates) :
       /\ ~Less(SnapDist(SnapCandidates[i]), SnapThreshold)
       /\ ~Less(SnapThreshold, SnapDist(SnapCandidates[i]))

\* C13: of several candidates at the same least distance the first examined
\* is returned: the origin before any end point, and of the end points the
\* one whose entry was inserted first.
C13_FirstOfTiesWins ==
  (SnapQueried /\ query.result # Null) =>
    \E i \in 1..Len(SnapCandidates) :
      /\ IsNearest(i)
      /\ \A j \in 1..(i - 1) : ~IsNearest(j)
      /\ query.result = Some(SnapCandidates[i])

\* C13 witness: two different candidates at the same least distance, the
\* earlier one returned
C13_Witness ==
  /\ SnapQueried
  /\ \E i, j \in 1..Len(SnapCandidates) :
       /\ i < j
       /\ IsNearest(i) /\ IsNearest(j)
       /\ SnapCandidates[i] # SnapCandidates[j]
       /\ query.result = Some(SnapCandidates[i])

\* C13 witness for two end points: as above with neither being the origin
TieOfTwoEndPoints ==
  /\ SnapQueried
  /\ \E i, j \in 2..Len(SnapCandidates) :
       /\ i < j
       /\ IsNearest(i) /\ IsNearest(j)
       /\ SnapCandidates[i] # SnapCandidates[j]
       /\ query.result = Some(SnapCandidates[i])

----------------------------------------------------------------------------
(* Claim C14: start points are snap targets already, under Spec *)

StartAtOrigin(e) == e.startX = 0 /\ e.startY = 0

StartAtEndOfOther(coords, k) ==
  \E j \in 1..Len(coords) :
    /\ j # k
    /\ coords[j].endX = coords[k].startX
    /\ coords[j].endY = coords[k].startY

\* C14: in every returned map each entry starts at the origin or at the end
\* point of another entry of the map.
C14_StartIsOriginOrAnEnd ==
  Returned =>
    \A k \in 1..Len(call.coords) :
      StartAtOrigin(call.coords[k]) \/ StartAtEndOfOther(call.coords, k)

\* C14 witness: an entry that starts away from the origin, at the end of
\* another entry
C14_Witness ==
  /\ Returned
  /\ \E k \in 1..Len(call.coords) :
       /\ ~StartAtOrigin(call.coords[k])
       /\ StartAtEndOfOther(call.coords, k)

----------------------------------------------------------------------------
(* Claims C15, C16, C17: calculateIsoVector, under SpecVector.  The two
   zeros of floating point, 0 and -0, are one number here: a component -0
   counts as 0. *)

VectorQueried == query.fn = "calculateIsoVector"

Neg(v) == Vec(-v.x, -v.y)

\* L * SCALE, and its products with cos(30 deg) and sin(30 deg)
Scaled(L) == RoundDiv(L * SCALE.num, SCALE.den)
CosPart(L) == RoundDiv(Scaled(L) * cos30.num, cos30.den)
SinPart(L) == RoundDiv(Scaled(L) * sin30.num, sin30.den)

\* C15: with length 0 the vector is (0,0), whatever the direction.
C15_ZeroLengthZeroVector ==
  (VectorQueried /\ query.lengthCm = 0) => query.result = Vec(0, 0)

C15_Witness ==
  /\ VectorQueried
  /\ query.lengthCm = 0
  /\ query.direction = "WEST"
  /\ query.result = Vec(0, 0)

\* C16: UP is (0, -L*SCALE) and DOWN is (0, +L*SCALE), each the exact
\* negation of the other; for L > 0 UP points to negative y, DOWN to positive.
C16_UpDownNegations ==
  (VectorQueried /\ query.direction \in {"UP", "DOWN"}) =>
    LET L == query.lengthCm
        other == IF query.direction = "UP" THEN "DOWN" ELSE "UP"
    IN /\ query.result.x = 0
       /\ query.direction = "UP" => query.result.y = -Scaled(L)
       /\ query.direction = "DOWN" => query.result.y = Scaled(L)
       /\ query.result = Neg(calculateIsoVector(L, other))
       /\ (L > 0 /\ query.direction = "UP") => query.result.y < 0
       /\ (L > 0 /\ query.direction = "DOWN") => query.result.y > 0

C16_Witness ==
  /\ VectorQueried
  /\ query.direction = "UP"
  /\ query.lengthCm > 0
  /\ query.result.y < 0

\* the sign pair of a vector
Sign(n) == IF n > 0 THEN 1 ELSE IF n < 0 THEN -1 ELSE 0
SignPair(v) == <<Sign(v.x), Sign(v.y)>>

Compass == {"NORTH", "SOUTH", "EAST", "WEST"}

\* C17: with c = L*SCALE*cos30 and s = L*SCALE*sin30, NORTH = (+c, -s),
\* SOUTH = (-c, +s), EAST = (+c, +s), WEST = (-c, -s); NORTH/SOUTH and
\* EAST/WEST are exact negations, and for L > 0 the sign pairs of the four
\* are (+,-), (-,+), (+,+), (-,-).
C17_CompassSigns ==
  (VectorQueried /\ query.direction \in Compass) =>
    LET L == query.lengthCm
        c == CosPart(L)
        s == SinPart(L)
        d == query.direction
        opposite == CASE d = "NORTH" -> "SOUTH" [] d = "SOUTH" -> "NORTH"
                      [] d = "EAST" -> "WEST" [] d = "WEST" -> "EAST"
    IN /\ d = "NORTH" => query.result = Vec(c, -s)
       /\ d = "SOUTH" => query.result = Vec(-c, s)
       /\ d = "EAST" => query.result = Vec(c, s)
       /\ d = "WEST" => query.result = Vec(-c, -s)
       /\ query.result = Neg(calculateIsoVector(L, opposite))
       /\ L > 0 =>
            SignPair(query.result) =
              CASE d = "NORTH" -> <<1, -1>> [] d = "SOUTH" -> <<-1, 1>>
                [] d = "EAST" -> <<1, 1>> [] d = "WEST" -> <<-1, -1>>

C17_Witness ==
  /\ VectorQueried
  /\ query.direction = "NORTH"
  /\ query.lengthCm > 0
  /\ SignPair(query.result) = <<1, -1>>

----------------------------------------------------------------------------
(* Claims C18, C19: getDistanceToSegment, under SpecDistance *)

DistanceQueried == query.fn = "getDistanceToSegment"

\* two distances are the same number
Same(a, b) == ~Less(a, b) /\ ~Less(b, a)

\* a distance is a number: its denominator is not 0
Defined(a) == a.d > 0

QueryZeroLength == query.x1 = query.x2 /\ query.y1 = query.y2

ToStart == hypot(query.px - query.x1, query.py - query.y1)
ToEnd == hypot(query.px - query.x2, query.py - query.y2)

\* C18: for a segment of length zero the result is the distance from the
\* point to the segment's one point, and nothing is divided by zero.
C18_ZeroLengthIsPointDistance ==
  (DistanceQueried /\ QueryZeroLength) =>
    /\ Defined(query.result)
    /\ Same(query.result, ToStart)

C18_Witness ==
  /\ DistanceQueried
  /\ QueryZeroLength
  /\ query.px # query.x1
  /\ Defined(query.result)
  /\ Same(query.result, ToStart)

\* the squared length of the segment, the projection of the point on its
\* line as a multiple of 1/SegLen2, and the distance to the infinite line
SegLen2 ==
  (query.x2 - query.x1) * (query.x2 - query.x1)
    + (query.y2 - query.y1) * (query.y2 - query.y1)
Projection ==
  (query.px - query.x1) * (query.x2 - query.x1)
    + (query.py - query.y1) * (query.y2 - query.y1)
Cross ==
  (query.x2 - query.x1) * (query.py - query.y1)
    - (query.y2 - query.y1) * (query.px - query.x1)
ToLine == Dist2(Cross * Cross, SegLen2)

\* C19: the projection before the start gives the distance to the start,
\* beyond the end the distance to the end, in between the distance to the
\* line; the result is at least the distance to the line and at most the
\* distance to either end point.
C19_ClampedProjection ==
  (DistanceQueried /\ ~QueryZeroLength) =>
    /\ Defined(query.result)
    /\ Projection < 0 => Same(query.result, ToStart)
    /\ Projection > SegLen2 => Same(query.result, ToEnd)
    /\ (Projection >= 0 /\ Projection <= SegLen2) => Same(query.result, ToLine)
    /\ ~Less(query.result, ToLine)
    /\ ~Less(ToStart, query.result)
    /\ ~Less(ToEnd, query.result)

\* C19 witness: a projection beyond the end, the point off the line: the
\* result is the distance to the end, more than the distance to the line
C19_Witness ==
  /\ DistanceQueried
  /\ ~QueryZeroLength
  /\ Projection > SegLen2
  /\ Cross # 0
  /\ Same(query.result, ToEnd)
  /\ Less(ToLine, query.result)

\* a projection strictly inside the segment, the point off the line
PerpendicularFootInside ==
  /\ DistanceQueried
  /\ Projection > 0
  /\ Projection < SegLen2
  /\ Cross # 0
  /\ Same(query.result, ToLine)
  /\ Less(query.result, ToStart)
  /\ Less(query.result, ToEnd)

----------------------------------------------------------------------------
(* Claim C20: what the three functions write, under SpecPure *)

AppState ==
  <<selectedId, isMeasureMode, measurePoints, isDragging, click,
    history, redoStack, fileRead>>

MapEntryDistanceQueried ==
  /\ Returned
  /\ Len(call.coords) > 0
  /\ query.fn = "getDistanceToSegment"

----------------------------------------------------------------------------
(* Claim C22: the insertion order of the returned map, under Spec *)

\* the index of the entry of id in the map, 0 when it has none
RECURSIVE IndexFrom(_, _, _)
IndexFrom(coords, id, k) ==
  IF k > Len(coords) THEN 0
  ELSE IF coords[k].id = id THEN k
  ELSE IndexFrom(coords, id, k + 1)
IndexOfEntry(coords, id) == IndexFrom(coords, id, 1)

\* C22: in every returned map the entry of a segment's parent comes before
\* the entry of the segment itself, whatever the order of the input list.
C22_ParentBeforeChild ==
  Returned =>
    \A k \in 1..Len(call.coords) :
      LET parentId == SegOf(pipes, call.coords[k].id).parentId
      IN parentId # ROOT =>
           /\ IndexOfEntry(call.coords, parentId) > 0
           /\ IndexOfEntry(call.coords, parentId) < k

\* C22 witness: the input list holds a child before its parent, the map
\* holds the parent first
C22_Witness ==
  /\ Returned
  /\ UniqueIds(pipes)
  /\ \E i, j \in 1..Len(pipes) :
       /\ i < j
       /\ pipes[i].parentId = pipes[j].id
       /\ IndexOfEntry(call.coords, pipes[i].id) > 0
       /\ IndexOfEntry(call.coords, pipes[j].id) < IndexOfEntry(call.coords, pipes[i].id)

----------------------------------------------------------------------------
(* Claim C21: the collection the editor builds, under SpecEditor *)

\* C21: from an empty project, after any sequence of add, update, delete,
\* undo and redo, every segment's chain of parents ends at ROOT (so it is on
\* no cycle) and the segment has an entry in the coordinate map.
C21_EverySegmentRooted ==
  /\ Returned
  /\ \A id \in IdsOf(pipes) : ReachesRoot(pipes, id) /\ ~OnCycle(pipes, id)
  /\ EntryIds(call.coords) = IdsOf(pipes)
  /\ Len(call.coords) = Len(pipes)

\* C21 witness: a segment under a segment, after a delete and an undo
C21_Witness ==
  /\ \E k \in 1..Len(pipes) : pipes[k].parentId \in IdsOf(pipes)
  /\ Len(redoStack) > 0
  /\ \E k \in 1..Len(redoStack) : Len(redoStack[k].pipes) < Len(pipes)
  /\ Len(call.coords) = Len(pipes)

----------------------------------------------------------------------------
(* Claim C27: the selection names something, under SpecApp *)

\* C27: the selected id is ROOT or the id of a segment of the collection,
\* after any sequence of add, update, delete, undo, redo, canvas click and
\* file load; so the parentId given to a new segment is never a missing id.
C27_SelectionExists == selectedId \in IdsOf(pipes) \cup {ROOT}

\* C27 witness: a segment selected by a click, after a file was loaded
C27_Witness ==
  /\ fileRead.done
  /\ click.branch = "hit"
  /\ selectedId \in IdsOf(pipes)

\* With a canvas click a segment that has children can be selected and
\* deleted: the children stay in the collection and have no entry.
OrphanAfterClickAndDelete ==
  /\ Returned
  /\ ~fileRead.pending /\ ~fileRead.done
  /\ \E k \in 1..Len(pipes) : IsOrphan(pipes, pipes[k])
  /\ Len(call.coords) < Len(pipes)

----------------------------------------------------------------------------
(* Claims C23, C24: undo and redo; C23 under SpecEditor, C24 under SpecApp *)

\* a step of add, update or delete
MutationStep ==
  HandleAddPipe(Forms) \/ HandleUpdatePipe(Forms) \/ HandleDeletePipe

\* C23: a step of add, update or delete leaves on top of the history the
\* collection and the selection as they were before the step, and a step of
\* undo makes the top of the history the collection and the selection again:
\* one undo after the mutation restores both.
C23_UndoRestoresStateBefore ==
  [][/\ MutationStep =>
          /\ Len(history') > 0
          /\ Last(history') = [pipes |-> pipes, selectedId |-> selectedId]
     /\ HandleUndo =>
          /\ pipes' = Last(history).pipes
          /\ selectedId' = Last(history).selectedId]_vars

\* C23 witness: a delete was undone: the collection has the segment again,
\* and it is selected
C23_Witness ==
  /\ Len(redoStack) > 0
  /\ Last(redoStack).selectedId = ROOT
  /\ Len(Last(redoStack).pipes) < Len(pipes)
  /\ selectedId \in IdsOf(pipes)
  /\ selectedId \notin IdsOf(Last(redoStack).pipes)

\* C24: when there is something to undo, undo and then redo give back the
\* collection, the selection, the history and the redo stack; undo with an
\* empty history and redo with an empty redo stack change nothing.
C24_UndoRedoIdentity ==
  /\ Len(history) > 0 => handleRedo(handleUndo(Ed)) = Ed
  /\ Len(history) = 0 => handleUndo(Ed) = Ed
  /\ Len(redoStack) = 0 => handleRedo(Ed) = Ed

\* C24 witness: there is something to undo, undo changes collection and
\* selection, and the redo stack is not empty before it
C24_Witness ==
  /\ Len(history) > 0
  /\ Len(redoStack) > 0
  /\ handleUndo(Ed).pipes # pipes
  /\ handleUndo(Ed).selectedId # selectedId
  /\ handleRedo(handleUndo(Ed)) = Ed

----------------------------------------------------------------------------
(* Claims C25, C29: commits and the redo stack, the commit of a file load,
   under SpecCommit *)

\* a file load that replaces the collection
FileReplacesPipes ==
  \E data \in FileContents : data.kind = "pipes" /\ FileLoadedWith(data)

\* a step of a handler that calls commitToHistory
CommitStep ==
  \/ HandleAddPipe(Forms)
  \/ HandleUpdatePipe(Forms)
  \/ HandleDeletePipe
  \/ HandleNewProject
  \/ FileReplacesPipes

\* C25: every step that commits to history (add, update, delete, new
\* project, file load) leaves the redo stack empty, so no redo is possible
\* right after it; the redo stack grows by undo steps only.
C25_CommitEmptiesRedo ==
  [][/\ CommitStep => redoStack' = <<>>
     /\ Len(redoStack') > Len(redoStack) => HandleUndo]_vars

\* C25 witness: a segment was added after an undo: the first id is gone
\* from the collection and from every snapshot, and the redo stack is empty
C25_Witness ==
  /\ fileRead = NoRead
  /\ IdAt[1] \notin KnownIds
  /\ Len(pipes) > 0
  /\ redoStack = <<>>

\* C29: a file load that replaces the collection commits the collection and
\* the selection as they are when the file content is applied, whatever was
\* edited since the file was chosen (so that undo restores them).
C29_LoadCommitsCurrentState ==
  [][FileReplacesPipes =>
       /\ Len(history') > 0
       /\ Last(history') = [pipes |-> pipes, selectedId |-> selectedId]]_vars

\* What the code does: the load commits the collection and the selection of
\* the render in which the file was chosen.
LoadCommitsStateOfChoosing ==
  [][FileReplacesPipes =>
       /\ Len(history') > 0
       /\ Last(history') =
            [pipes |-> fileRead.pipes, selectedId |-> fileRead.selectedId]]_vars

\* a segment was added to the empty project between the choosing of a file
\* and its load; after the load and one undo the collection is empty, the
\* segment is gone
EditLostAfterLoadAndUndo ==
  /\ fileRead.done
  /\ Len(redoStack) = 1
  /\ Last(redoStack).pipes \in FileLists
  /\ history = <<[pipes |-> <<>>, selectedId |-> ROOT]>>
  /\ pipes = <<>>

----------------------------------------------------------------------------
(* C26 *)

HistoryCommit == HandleAddPipe(AppForms) \/ HandleUpdatePipe(AppForms)

\* C26: the history stack never holds more than 50 snapshots, whatever the
\* interleaving of commits, undos and redos: a commit on a full stack drops
\* the oldest snapshot and pushes the state before the change; a redo pushes
\* the current state and trims nothing, and it has room because every
\* snapshot on the redo stack was taken off the history by an undo.
C26_HistoryAtMostFifty ==
  /\ [](Len(history) <= HistoryKeep + 1)
  /\ [](Len(history) + Len(redoStack) <= HistoryKeep + 1)
  /\ [][/\ (HistoryCommit /\ Len(history) = HistoryKeep + 1) =>
             history' = Append(Tail(history),
                               [pipes |-> pipes, selectedId |-> selectedId])
        /\ (HistoryCommit /\ Len(history) <= HistoryKeep) =>
             history' = Append(history,
                               [pipes |-> pipes, selectedId |-> selectedId])
        /\ HandleRedo =>
             history' = Append(history,
                               [pipes |-> pipes, selectedId |-> selectedId])]_vars

\* the stack is full, and the snapshot of the empty project, the oldest, has
\* been dropped from it
C26_Witness ==
  /\ Len(history) = HistoryKeep + 1
  /\ history[1].pipes # <<>>

\* one undo from a full stack whose oldest snapshot is the empty project: the
\* redo enabled here fills the stack again
RedoFillsStack ==
  /\ Len(history) = HistoryKeep
  /\ Len(redoStack) = 1
  /\ history[1].pipes = <<>>

----------------------------------------------------------------------------
(* C28 *)

NoParentCycle(ps) == \A id \in IdsOf(ps) : ~OnCycle(ps, id)

\* C28: from an empty project, with fresh ids for new segments, no sequence
\* of add, update, delete, undo and redo makes a parent cycle, in the
\* collection or in a snapshot, and every call of resolveAll by the editor
\* returns: add appends one segment with an id the collection does not hold,
\* under the selection, which is ROOT or an id of the collection; update
\* changes neither the id nor the parentId of any segment; delete removes
\* the selected segment and nothing else.
C28_NoCycleFromEditing ==
  /\ [](/\ NoParentCycle(pipes)
        /\ UniqueIds(pipes)
        /\ \A k \in 1..Len(history) : NoParentCycle(history[k].pipes)
        /\ \A k \in 1..Len(redoStack) : NoParentCycle(redoStack[k].pipes)
        /\ call.phase = "returned")
  /\ [][/\ HandleAddPipe(Forms) =>
             /\ Len(pipes') = Len(pipes) + 1
             /\ SubSeq(pipes', 1, Len(pipes)) = pipes
             /\ Last(pipes').id \notin IdsOf(pipes) \cup {ROOT}
             /\ Last(pipes').parentId = selectedId
             /\ selectedId \in IdsOf(pipes) \cup {ROOT}
        /\ HandleUpdatePipe(Forms) =>
             /\ Len(pipes') = Len(pipes)
             /\ \A k \in 1..Len(pipes) :
                  /\ pipes'[k].id = pipes[k].id
                  /\ pipes'[k].parentId = pipes[k].parentId
        /\ HandleDeletePipe =>
             /\ IdsOf(pipes') = IdsOf(pipes) \ {selectedId}
             /\ \A k \in 1..Len(pipes') : pipes'[k] = SegOf(pipes, pipes'[k].id)
             /\ Len(pipes') = Len(pipes) - (IF selectedId = ROOT THEN 0 ELSE 1)]_vars

\* a segment added under a segment added under ROOT, with a shorter
\* collection on the redo stack: the delete of the second was undone
C28_Witness ==
  /\ Len(pipes) = 2
  /\ pipes[1].parentId = ROOT
  /\ pipes[2].parentId = pipes[1].id
  /\ selectedId = pipes[2].id
  /\ Len(redoStack) > 0
  /\ Last(redoStack).pipes = <<pipes[1]>>

----------------------------------------------------------------------------
(* C30 *)

\* the world point of the click a step made
Clicked == Vec(click'.x, click'.y)

\* what a counted click does to the list of measure points
CountedClick ==
  measurePoints' = IF Len(measurePoints) = 2 THEN <<Clicked>>
                   ELSE Append(measurePoints, Clicked)

\* C30, as stated: the list of measure points never holds more than two;
\* every click in measure mode appends its point while fewer than two are
\* held and replaces the list by its point when two are held, and leaves
\* the selected id as it is; the measure button empties the list.
C30_EveryMeasureClickCounts ==
  /\ [](Len(measurePoints) <= 2)
  /\ [][/\ (CanvasClick /\ isMeasureMode) =>
             (CountedClick /\ selectedId' = selectedId)
        /\ ToggleMeasure => measurePoints' = <<>>]_vars

\* C30, amended: the list of measure points never holds more than two, and
\* holds none outside measure mode; a click in measure mode on a project
\* with segments, the view not being panned, appends its point while fewer
\* than two are held and replaces the list by its point when two are held;
\* a click in measure mode on an empty project or during a pan leaves the
\* list as it is; no click in measure mode changes the selected id; the
\* measure button empties the list.
C30_MeasureClicksOnProject ==
  /\ [](Len(measurePoints) <= 2)
  /\ [](~isMeasureMode => measurePoints = <<>>)
  /\ [][/\ (CanvasClick /\ isMeasureMode /\ Len(pipes) > 0 /\ ~isDragging) =>
             CountedClick
        /\ (CanvasClick /\ isMeasureMode /\ (Len(pipes) = 0 \/ isDragging)) =>
             measurePoints' = measurePoints
        /\ (CanvasClick /\ isMeasureMode) => selectedId' = selectedId
        /\ ToggleMeasure => measurePoints' = <<>>]_vars

\* two points held after a second click in measure mode, a segment chosen
\* before measuring still selected
C30_Witness ==
  /\ isMeasureMode
  /\ click.branch = "measure"
  /\ Len(measurePoints) = 2
  /\ measurePoints[2] = Vec(click.x, click.y)
  /\ measurePoints[1] # measurePoints[2]
  /\ selectedId # ROOT

\* a click in measure mode on an empty project: no point is held
MeasureClickOnEmptyProject ==
  /\ isMeasureMode
  /\ click.branch = "empty"
  /\ measurePoints = <<>>

============================================================================
